---- MODULE Spec2Model ----
(***************************************************************************)
(* tomatocrab: the pomodoro clock state machine of src/src/app.rs          *)
(* (App::handle_action and its helpers) together with the session store of *)
(* src/src/storage.rs.                                                     *)
(*                                                                         *)
(* Time.  Instant::now() is the variable `now`, counted in clock ticks of  *)
(* 1/TicksPerSec second, so that the floor of Duration::as_secs() is       *)
(* visible.  Utc::now() is read off the same clock.  App::new multiplies   *)
(* the configured minutes by 60; the model multiplies by SecsPerMin, a     *)
(* scaled-down minute, to keep whole intervals inside MaxTime.  All u32  *)
(* quantities stay far below 2^32 within these bounds, so the arithmetic   *)
(* is plain integer arithmetic.                                            *)
(*                                                                         *)
(* History variables (not fields of App): `handed` is the sequence of      *)
(* Session values passed to Storage::save_session, `active` the number of  *)
(* ticks the current interval has spent in Running, `budget` the number of *)
(* work intervals that may still be started, `breaks_started` the number   *)
(* of breaks started, `ret` the Result of the last handle_action call,     *)
(* `quit_sent` whether a quit intent (the quit key where it is one, or     *)
(* Action::Quit) has been delivered.                                       *)
(***************************************************************************)
EXTENDS Integers, Sequences, FiniteSets, TLC

\* ---- bounds of the model ----
MaxTime == 3
TicksPerSec == 2
SecsPerMin == 1
MaxTaskLen == 1
MaxIntervals == 1

\* ---- program constants ----
SecsPerDay == 86400
WeekDays == 7
\* daily_focus_data and weekly_bar_data chart (0..7)
ChartDays == 7
\* 2^16: a u32 is two halves of 16 bits
Half == 65536
\* the longest duration_secs drawn: 2^31 - 1, half of a u32's range
LongSecs == 2147483647

\* inputs App::new is given (minutes, and the long-break interval)
DurationMinutes == {0, 1, 2}
ShortBreakMinutes == {1}
LongBreakMinutes == {2}
LongBreakIntervals == {1, 2}

\* characters the keyboard delivers as Action::Input
PauseKeys == {" "}
SkipKeys == {"s", "S"}
StopKeys == {"r", "R"}
QuitKeys == {"q", "Q"}
FilterKeys == {"f", "F"}
BreakKeys == {"b", "B"}
Chars == {" ", "a", "s", "r", "q", "f", "b"}
\* characters typed into the task description
TaskChars == {" ", "f"}

VARIABLES
    state, should_quit, total_duration_secs, remaining_secs, task_description,
    session_start, pause_start, pomodoro_started_at, current_view,
    session_filter, sessions_cache, history_selected, timer_mode,
    work_duration_secs, short_break_secs, long_break_secs,
    sessions_until_long_break, work_sessions_completed,
    disk, now,
    handed, active, budget, breaks_started, ret, quit_sent

config == <<work_duration_secs, short_break_secs, long_break_secs,
            sessions_until_long_break>>
clock == <<state, timer_mode, total_duration_secs, remaining_secs,
           session_start, pause_start, pomodoro_started_at,
           work_sessions_completed>>
views == <<current_view, session_filter, history_selected>>
ghosts == <<active, budget, breaks_started>>
vars == <<state, should_quit, total_duration_secs, remaining_secs,
          task_description, session_start, pause_start, pomodoro_started_at,
          current_view, session_filter, sessions_cache, history_selected,
          timer_mode, work_duration_secs, short_break_secs, long_break_secs,
          sessions_until_long_break, work_sessions_completed, disk, now,
          handed, active, budget, breaks_started, ret, quit_sent>>

\* Option<T>: None is the empty sequence, Some(v) the one-element sequence
None == <<>>
Some(v) == <<v>>

AppStates == {"Idle", "EnteringTask", "Running", "Paused", "WorkFinished",
              "BreakFinished"}
TimerModes == {"Work", "ShortBreak", "LongBreak"}
Views == {"Timer", "History", "Stats"}
SessionFilters == {"Today", "Week", "All"}

\* ---- str::trim on the task text (the space is its only whitespace) ----
RECURSIVE TrimStart(_)
TrimStart(s) ==
    IF s # <<>> /\ Head(s) = " " THEN TrimStart(Tail(s)) ELSE s

RECURSIVE TrimEnd(_)
TrimEnd(s) ==
    IF s # <<>> /\ s[Len(s)] = " " THEN TrimEnd(SubSeq(s, 1, Len(s) - 1))
    ELSE s

\* a trim that strips nothing
Trim_None(s) == s

Trim(s) == TrimEnd(TrimStart(s))

\* ---- Storage (src/src/storage.rs) ----
\* The sessions file: absent, blank, unparsable, or a JSON list of sessions.
NoFile == [kind |-> "absent", sessions |-> <<>>]
BlankFile == [kind |-> "blank", sessions |-> <<>>]
MalformedFile == [kind |-> "malformed", sessions |-> <<>>]
\* serde_json::to_string_pretty / from_str of a Vec<Session>: a JSON array of
\* objects, each written here as the tuple of its field values
ToJson(ss) ==
    [i \in 1..Len(ss) |->
        <<ss[i].task, ss[i].started_at, ss[i].duration_secs, ss[i].completed>>]
FromJson(text) ==
    [i \in 1..Len(text) |->
        [task |-> text[i][1], started_at |-> text[i][2],
         duration_secs |-> text[i][3], completed |-> text[i][4]]]
ListFile(ss) == [kind |-> "list", sessions |-> ToJson(ss)]

\* Storage::load_sessions: Ok(list) or Err
LoadSessions(d) ==
    IF d.kind = "absent" THEN [ok |-> TRUE, sessions |-> <<>>]
    ELSE IF d.kind = "blank" THEN [ok |-> TRUE, sessions |-> <<>>]
    ELSE IF d.kind = "malformed" THEN [ok |-> FALSE, sessions |-> <<>>]
    ELSE [ok |-> TRUE, sessions |-> FromJson(d.sessions)]

\* load_sessions().unwrap_or_default()
LoadOrDefault(d) ==
    IF LoadSessions(d).ok THEN LoadSessions(d).sessions ELSE <<>>

\* what fs::write can do: succeed, fail before touching the file, fail after
\* truncating it, fail after writing a part of the content
WriteOutcomes == {"written", "untouched", "truncated", "partial"}
\* the outcome the clock model draws: a save fails there only through a file
\* that cannot be parsed
ClockWrites == {"written"}

\* save_session starting a new list when the file cannot be loaded
SaveSession_IgnoreLoadError(d, session, w) ==
    LET loaded == LoadSessions(d)
        sessions == IF loaded.ok THEN loaded.sessions ELSE <<>>
    IN  IF w = "written"
        THEN [ok |-> TRUE, disk |-> ListFile(Append(sessions, session))]
        ELSE IF w = "untouched" THEN [ok |-> FALSE, disk |-> d]
        ELSE IF w = "truncated" THEN [ok |-> FALSE, disk |-> BlankFile]
        ELSE [ok |-> FALSE, disk |-> MalformedFile]

\* Storage::save_session: the Result and the file afterwards; a mutant puts
\* the new session first
SaveSession_Prepend(d, session, w) ==
    LET loaded == LoadSessions(d) IN
    IF ~loaded.ok THEN [ok |-> FALSE, disk |-> d]
    ELSE IF w = "written"
         THEN [ok |-> TRUE, disk |-> ListFile(<<session>> \o loaded.sessions)]
    ELSE IF w = "untouched" THEN [ok |-> FALSE, disk |-> d]
    ELSE IF w = "truncated" THEN [ok |-> FALSE, disk |-> BlankFile]
    ELSE [ok |-> FALSE, disk |-> MalformedFile]

SaveSession(d, session, w) ==
    LET loaded == LoadSessions(d) IN
    IF ~loaded.ok THEN [ok |-> FALSE, disk |-> d]
    ELSE IF w = "written"
         THEN [ok |-> TRUE, disk |-> ListFile(Append(loaded.sessions, session))]
    ELSE IF w = "untouched" THEN [ok |-> FALSE, disk |-> d]
    ELSE IF w = "truncated" THEN [ok |-> FALSE, disk |-> BlankFile]
    ELSE [ok |-> FALSE, disk |-> MalformedFile]

\* Session::new (the random id is left out)
NewSession(task, started_at, duration_secs, completed) ==
    [task |-> task, started_at |-> started_at,
     duration_secs |-> duration_secs, completed |-> completed]

\* App::save_current_session: the Result, the file and the sessions handed to
\* the store afterwards
\* (`remaining` is self.remaining_secs at the time of the call); a mutant
\* records the length of the interval
SaveCurrentSession_WholeInterval(remaining, completed, w) ==
    IF pomodoro_started_at # None /\ Trim(task_description) # <<>>
    THEN LET session == NewSession(task_description, pomodoro_started_at[1],
                                   total_duration_secs, completed)
             r == SaveSession(disk, session, w)
         IN  [ok |-> r.ok, disk |-> r.disk, handed |-> Append(handed, session)]
    ELSE [ok |-> TRUE, disk |-> disk, handed |-> handed]

SaveCurrentSession(remaining, completed, w) ==
    IF pomodoro_started_at # None /\ Trim(task_description) # <<>>
    THEN LET session == NewSession(task_description, pomodoro_started_at[1],
                                   total_duration_secs - remaining,
                                   completed)
             r == SaveSession(disk, session, w)
         IN  [ok |-> r.ok, disk |-> r.disk, handed |-> Append(handed, session)]
    ELSE [ok |-> TRUE, disk |-> disk, handed |-> handed]

\* ---- App (src/src/app.rs) ----
\* View::next, View::prev
NextViewOf(v) ==
    IF v = "Timer" THEN "History" ELSE IF v = "History" THEN "Stats" ELSE "Timer"

PrevViewOf(v) ==
    IF v = "Timer" THEN "Stats" ELSE IF v = "History" THEN "Timer" ELSE "History"

\* the local calendar day of a clock reading
LocalDate(t) == t \div (SecsPerDay * TicksPerSec)

\* App::filtered_sessions
RECURSIVE FilterSessions(_, _, _)
FilterSessions(ss, f, today) ==
    IF ss = <<>> THEN <<>>
    ELSE LET d == LocalDate(Head(ss).started_at)
             keep == IF f = "Today" THEN d = today
                     ELSE IF f = "Week" THEN d >= today - WeekDays
                     ELSE TRUE
             rest == FilterSessions(Tail(ss), f, today)
         IN  IF keep THEN <<Head(ss)>> \o rest ELSE rest

filtered_sessions == FilterSessions(sessions_cache, session_filter, LocalDate(now))

\* App::refresh_sessions, reading the file d
refresh_sessions(d) == sessions_cache' = LoadOrDefault(d)

\* App::next_view
next_view ==
    /\ current_view' = NextViewOf(current_view)
    /\ IF NextViewOf(current_view) # "Timer" THEN refresh_sessions(disk)
       ELSE UNCHANGED sessions_cache
    /\ history_selected' = 0

\* App::prev_view
prev_view ==
    /\ current_view' = PrevViewOf(current_view)
    /\ IF PrevViewOf(current_view) # "Timer" THEN refresh_sessions(disk)
       ELSE UNCHANGED sessions_cache
    /\ history_selected' = 0

\* App::cycle_filter
cycle_filter ==
    /\ session_filter' = (IF session_filter = "Today" THEN "Week"
                          ELSE IF session_filter = "Week" THEN "All"
                          ELSE "Today")
    /\ history_selected' = 0

\* App::start_work_timer
start_work_timer ==
    /\ timer_mode' = "Work"
    /\ total_duration_secs' = work_duration_secs
    /\ remaining_secs' = work_duration_secs
    /\ session_start' = Some(now)
    /\ pomodoro_started_at' = Some(now)
    /\ state' = "Running"

\* start_break with the short branch setting remaining from the long break
start_break_copied_remaining ==
    /\ IF work_sessions_completed >= sessions_until_long_break
       THEN /\ timer_mode' = "LongBreak"
            /\ total_duration_secs' = long_break_secs
            /\ work_sessions_completed' = 0
       ELSE /\ timer_mode' = "ShortBreak"
            /\ total_duration_secs' = short_break_secs
            /\ UNCHANGED work_sessions_completed
    /\ remaining_secs' = long_break_secs
    /\ session_start' = Some(now)
    /\ state' = "Running"

\* start_break resetting the counter for a short break as well
start_break_reset_always ==
    /\ IF work_sessions_completed >= sessions_until_long_break
       THEN /\ timer_mode' = "LongBreak"
            /\ total_duration_secs' = long_break_secs
            /\ remaining_secs' = long_break_secs
       ELSE /\ timer_mode' = "ShortBreak"
            /\ total_duration_secs' = short_break_secs
            /\ remaining_secs' = short_break_secs
    /\ work_sessions_completed' = 0
    /\ session_start' = Some(now)
    /\ state' = "Running"

\* start_break comparing with > instead of >=
start_break_strict ==
    /\ IF work_sessions_completed > sessions_until_long_break
       THEN /\ timer_mode' = "LongBreak"
            /\ total_duration_secs' = long_break_secs
            /\ remaining_secs' = long_break_secs
            /\ work_sessions_completed' = 0
       ELSE /\ timer_mode' = "ShortBreak"
            /\ total_duration_secs' = short_break_secs
            /\ remaining_secs' = short_break_secs
            /\ UNCHANGED work_sessions_completed
    /\ session_start' = Some(now)
    /\ state' = "Running"

\* App::start_break
start_break ==
    /\ IF work_sessions_completed >= sessions_until_long_break
       THEN /\ timer_mode' = "LongBreak"
            /\ total_duration_secs' = long_break_secs
            /\ remaining_secs' = long_break_secs
            /\ work_sessions_completed' = 0
       ELSE /\ timer_mode' = "ShortBreak"
            /\ total_duration_secs' = short_break_secs
            /\ remaining_secs' = short_break_secs
            /\ UNCHANGED work_sessions_completed
    /\ session_start' = Some(now)
    /\ state' = "Running"

\* Instant::elapsed().as_secs() as u32 of the instant `start`
ElapsedSecs(start) == (now - start) \div TicksPerSec

\* update_timer that never ends a break
update_timer_work_only(w) ==
    IF session_start # None
    THEN LET elapsed == ElapsedSecs(session_start[1]) IN
         IF elapsed >= total_duration_secs
         THEN /\ remaining_secs' = 0
              /\ IF timer_mode = "Work"
                 THEN LET r == SaveCurrentSession(0, TRUE, w) IN
                      /\ state' = "WorkFinished"
                      /\ work_sessions_completed' = work_sessions_completed + 1
                      /\ disk' = r.disk
                      /\ handed' = r.handed
                      /\ refresh_sessions(r.disk)
                 ELSE UNCHANGED <<state, work_sessions_completed, disk, handed,
                                  sessions_cache>>
         ELSE /\ remaining_secs' = total_duration_secs - elapsed
              /\ UNCHANGED <<state, work_sessions_completed, disk, handed,
                             sessions_cache>>
    ELSE UNCHANGED <<remaining_secs, state, work_sessions_completed, disk,
                     handed, sessions_cache>>

\* update_timer counting its calls: every Tick takes one second off remaining
update_timer_counting(w) ==
    IF session_start # None
    THEN IF remaining_secs <= 1
         THEN /\ remaining_secs' = 0
              /\ IF timer_mode = "Work"
                 THEN LET r == SaveCurrentSession(0, TRUE, w) IN
                      /\ state' = "WorkFinished"
                      /\ work_sessions_completed' = work_sessions_completed + 1
                      /\ disk' = r.disk
                      /\ handed' = r.handed
                      /\ refresh_sessions(r.disk)
                 ELSE /\ state' = "BreakFinished"
                      /\ UNCHANGED <<work_sessions_completed, disk, handed,
                                     sessions_cache>>
         ELSE /\ remaining_secs' = remaining_secs - 1
              /\ UNCHANGED <<state, work_sessions_completed, disk, handed,
                             sessions_cache>>
    ELSE UNCHANGED <<remaining_secs, state, work_sessions_completed, disk,
                     handed, sessions_cache>>

\* update_timer completing only when elapsed > total
update_timer_late_only(w) ==
    IF session_start # None
    THEN LET elapsed == ElapsedSecs(session_start[1]) IN
         IF elapsed > total_duration_secs
         THEN /\ remaining_secs' = 0
              /\ IF timer_mode = "Work"
                 THEN LET r == SaveCurrentSession(0, TRUE, w) IN
                      /\ state' = "WorkFinished"
                      /\ work_sessions_completed' = work_sessions_completed + 1
                      /\ disk' = r.disk
                      /\ handed' = r.handed
                      /\ refresh_sessions(r.disk)
                 ELSE /\ state' = "BreakFinished"
                      /\ UNCHANGED <<work_sessions_completed, disk, handed,
                                     sessions_cache>>
         ELSE /\ remaining_secs' = total_duration_secs - elapsed
              /\ UNCHANGED <<state, work_sessions_completed, disk, handed,
                             sessions_cache>>
    ELSE UNCHANGED <<remaining_secs, state, work_sessions_completed, disk,
                     handed, sessions_cache>>

\* App::update_timer (w: what the write of the completed session does)
update_timer(w) ==
    IF session_start # None
    THEN LET elapsed == ElapsedSecs(session_start[1]) IN
         IF elapsed >= total_duration_secs
         THEN /\ remaining_secs' = 0
              /\ IF timer_mode = "Work"
                 THEN LET r == SaveCurrentSession(0, TRUE, w) IN
                      /\ state' = "WorkFinished"
                      /\ work_sessions_completed' = work_sessions_completed + 1
                      /\ disk' = r.disk
                      /\ handed' = r.handed
                      /\ refresh_sessions(r.disk)
                 ELSE /\ state' = "BreakFinished"
                      /\ UNCHANGED <<work_sessions_completed, disk, handed,
                                     sessions_cache>>
         ELSE /\ remaining_secs' = total_duration_secs - elapsed
              /\ UNCHANGED <<state, work_sessions_completed, disk, handed,
                             sessions_cache>>
    ELSE UNCHANGED <<remaining_secs, state, work_sessions_completed, disk,
                     handed, sessions_cache>>

\* App::reset, reading the file d; a mutant leaves remaining_secs as it was
reset_KeepRemaining(d) ==
    /\ state' = "Idle"
    /\ timer_mode' = "Work"
    /\ total_duration_secs' = work_duration_secs
    /\ remaining_secs' = remaining_secs
    /\ task_description' = <<>>
    /\ session_start' = None
    /\ pause_start' = None
    /\ pomodoro_started_at' = None
    /\ refresh_sessions(d)

reset(d) ==
    /\ state' = "Idle"
    /\ timer_mode' = "Work"
    /\ total_duration_secs' = work_duration_secs
    /\ remaining_secs' = work_duration_secs
    /\ task_description' = <<>>
    /\ session_start' = None
    /\ pause_start' = None
    /\ pomodoro_started_at' = None
    /\ refresh_sessions(d)

\* App::elapsed_secs
elapsed_secs == total_duration_secs - remaining_secs

\* ---- App::new ----
Init ==
    /\ \E dm \in DurationMinutes :
          /\ work_duration_secs = dm * SecsPerMin
          /\ total_duration_secs = dm * SecsPerMin
          /\ remaining_secs = dm * SecsPerMin
    /\ \E sb \in ShortBreakMinutes : short_break_secs = sb * SecsPerMin
    /\ \E lb \in LongBreakMinutes : long_break_secs = lb * SecsPerMin
    /\ sessions_until_long_break \in LongBreakIntervals
    /\ disk \in {NoFile, MalformedFile}
    /\ sessions_cache = LoadOrDefault(disk)
    /\ state = "Idle"
    /\ should_quit = FALSE
    /\ task_description = <<>>
    /\ session_start = None
    /\ pause_start = None
    /\ pomodoro_started_at = None
    /\ current_view = "Timer"
    /\ session_filter = "Week"
    /\ history_selected = 0
    /\ timer_mode = "Work"
    /\ work_sessions_completed = 0
    /\ now = 0
    /\ handed = <<>>
    /\ active = 0
    /\ budget = MaxIntervals
    /\ breaks_started = 0
    /\ ret = "Ok"
    /\ quit_sent = FALSE

\* run_timer: the loop polls for the next action while !should_quit, and a
\* handle_action that returned Err ended it (`app.handle_action(action)?`)
Polled == ~should_quit /\ ret = "Ok"

\* run_timer: the Tick of an iteration is sent when the action before it, if
\* any, returned Ok and the state is Running, also when that action set
\* should_quit
TickSent == ret = "Ok"

\* wall-clock time passes between two calls of handle_action
Advance ==
    /\ Polled
    /\ now < MaxTime
    /\ now' = now + 1
    /\ active' = IF state = "Running" THEN active + 1 ELSE active
    /\ UNCHANGED <<clock, task_description, should_quit, views, sessions_cache,
                   disk, handed, config, budget, breaks_started, ret,
                   quit_sent>>

\* ---- App::handle_action, one action per match arm ----
NonInputStates == {"Idle", "Running", "Paused", "WorkFinished", "BreakFinished"}

NextTab ==
    /\ Polled
    /\ state \in NonInputStates
    /\ next_view
    /\ ret' = "Ok"
    /\ UNCHANGED <<clock, task_description, should_quit, session_filter, disk,
                   handed, now, config, ghosts, quit_sent>>

PrevTab ==
    /\ Polled
    /\ state \in NonInputStates
    /\ prev_view
    /\ ret' = "Ok"
    /\ UNCHANGED <<clock, task_description, should_quit, session_filter, disk,
                   handed, now, config, ghosts, quit_sent>>

ScrollUp ==
    /\ Polled
    /\ history_selected' =
           IF current_view = "History" /\ history_selected > 0
           THEN history_selected - 1 ELSE history_selected
    /\ ret' = "Ok"
    /\ UNCHANGED <<clock, task_description, should_quit, current_view,
                   session_filter, sessions_cache, disk, handed, now, config,
                   ghosts, quit_sent>>

ScrollDown ==
    /\ Polled
    /\ LET n == Len(filtered_sessions)
           max == IF n = 0 THEN 0 ELSE n - 1
       IN  history_selected' =
               IF current_view = "History" /\ history_selected < max
               THEN history_selected + 1 ELSE history_selected
    /\ ret' = "Ok"
    /\ UNCHANGED <<clock, task_description, should_quit, current_view,
                   session_filter, sessions_cache, disk, handed, now, config,
                   ghosts, quit_sent>>

\* a mutant of (Idle, Confirm) without the test of the view
IdleConfirm_AnyView ==
    /\ Polled
    /\ state = "Idle"
    /\ state' = "EnteringTask"
    /\ task_description' = <<>>
    /\ ret' = "Ok"
    /\ UNCHANGED <<timer_mode, total_duration_secs, remaining_secs,
                   session_start, pause_start, pomodoro_started_at,
                   work_sessions_completed, should_quit, views, sessions_cache,
                   disk, handed, now, config, ghosts, quit_sent>>

IdleConfirm ==
    /\ Polled
    /\ state = "Idle"
    /\ IF current_view = "Timer"
       THEN /\ state' = "EnteringTask"
            /\ task_description' = <<>>
       ELSE UNCHANGED <<state, task_description>>
    /\ ret' = "Ok"
    /\ UNCHANGED <<timer_mode, total_duration_secs, remaining_secs,
                   session_start, pause_start, pomodoro_started_at,
                   work_sessions_completed, should_quit, views, sessions_cache,
                   disk, handed, now, config, ghosts, quit_sent>>

IdleInput(c) ==
    /\ Polled
    /\ state = "Idle"
    /\ IF c \in QuitKeys
       THEN /\ should_quit' = TRUE
            /\ UNCHANGED <<state, task_description, session_filter,
                           history_selected>>
       ELSE IF c \in FilterKeys /\ current_view \in {"History", "Stats"}
       THEN /\ cycle_filter
            /\ UNCHANGED <<state, task_description, should_quit>>
       ELSE IF current_view = "Timer"
       THEN /\ state' = "EnteringTask"
            /\ task_description' = <<c>>
            /\ UNCHANGED <<should_quit, session_filter, history_selected>>
       ELSE UNCHANGED <<state, task_description, should_quit, session_filter,
                        history_selected>>
    /\ ret' = "Ok"
    /\ UNCHANGED <<timer_mode, total_duration_secs, remaining_secs,
                   session_start, pause_start, pomodoro_started_at,
                   work_sessions_completed, current_view, sessions_cache, disk,
                   handed, now, config, ghosts>>
    /\ quit_sent' = (quit_sent \/ c \in QuitKeys)

\* a mutant of (EnteringTask, Input(c)) in which the quit key quits
EnteringTaskInput_QuitKey(c) ==
    /\ Polled
    /\ state = "EnteringTask"
    /\ Len(task_description) < MaxTaskLen
    /\ IF c \in QuitKeys
       THEN should_quit' = TRUE /\ UNCHANGED task_description
       ELSE task_description' = Append(task_description, c) /\ UNCHANGED should_quit
    /\ ret' = "Ok"
    /\ UNCHANGED <<clock, views, sessions_cache, disk, handed,
                   now, config, ghosts, quit_sent>>

EnteringTaskInput(c) ==
    /\ Polled
    /\ state = "EnteringTask"
    /\ Len(task_description) < MaxTaskLen
    /\ task_description' = Append(task_description, c)
    /\ ret' = "Ok"
    /\ UNCHANGED <<clock, should_quit, views, sessions_cache, disk, handed,
                   now, config, ghosts, quit_sent>>

EnteringTaskBackspace ==
    /\ Polled
    /\ state = "EnteringTask"
    /\ task_description' =
           IF task_description = <<>> THEN <<>>
           ELSE SubSeq(task_description, 1, Len(task_description) - 1)
    /\ ret' = "Ok"
    /\ UNCHANGED <<clock, should_quit, views, sessions_cache, disk, handed,
                   now, config, ghosts, quit_sent>>

\* a mutant of (EnteringTask, Confirm) that tests the task without trim()
EnteringTaskConfirm_NoTrim ==
    /\ Polled
    /\ state = "EnteringTask"
    /\ IF task_description # <<>>
       THEN /\ budget > 0
            /\ start_work_timer
            /\ active' = 0
            /\ budget' = budget - 1
       ELSE UNCHANGED <<timer_mode, total_duration_secs, remaining_secs,
                        session_start, pomodoro_started_at, state, active,
                        budget>>
    /\ ret' = "Ok"
    /\ UNCHANGED <<pause_start, work_sessions_completed, task_description,
                   should_quit, views, sessions_cache, disk, handed, now,
                   config, breaks_started, quit_sent>>

EnteringTaskConfirm ==
    /\ Polled
    /\ state = "EnteringTask"
    /\ IF Trim(task_description) # <<>>
       THEN /\ budget > 0
            /\ start_work_timer
            /\ active' = 0
            /\ budget' = budget - 1
       ELSE UNCHANGED <<timer_mode, total_duration_secs, remaining_secs,
                        session_start, pomodoro_started_at, state, active,
                        budget>>
    /\ ret' = "Ok"
    /\ UNCHANGED <<pause_start, work_sessions_completed, task_description,
                   should_quit, views, sessions_cache, disk, handed, now,
                   config, breaks_started, quit_sent>>

EnteringTaskCancel ==
    /\ Polled
    /\ state = "EnteringTask"
    /\ task_description' = <<>>
    /\ state' = "Idle"
    /\ ret' = "Ok"
    /\ UNCHANGED <<timer_mode, total_duration_secs, remaining_secs,
                   session_start, pause_start, pomodoro_started_at,
                   work_sessions_completed, should_quit, views, sessions_cache,
                   disk, handed, now, config, ghosts, quit_sent>>

\* the final arm treating whatever it gets as a Cancel: the task text cleared
NoOp_ClearsTask ==
    /\ task_description' = <<>>
    /\ ret' = "Ok"
    /\ UNCHANGED <<clock, should_quit, views, sessions_cache, disk, handed, now,
                   config, ghosts, quit_sent>>

\* an arm that changes nothing: `_ => {}`
NoOp ==
    /\ ret' = "Ok"
    /\ UNCHANGED <<clock, task_description, should_quit, views, sessions_cache,
                   disk, handed, now, config, ghosts, quit_sent>>

\* the arm of the quit key outside a work interval: self.should_quit = true
QuitOnly ==
    /\ should_quit' = TRUE
    /\ ret' = "Ok"
    /\ UNCHANGED <<clock, task_description, views, sessions_cache, disk, handed,
                   now, config, ghosts>>
    /\ quit_sent' = TRUE

\* the arm of the filter key: cycle_filter in the History and Stats views
FilterOnly ==
    /\ IF current_view \in {"History", "Stats"} THEN cycle_filter
       ELSE UNCHANGED <<session_filter, history_selected>>
    /\ ret' = "Ok"
    /\ UNCHANGED <<clock, task_description, should_quit, current_view,
                   sessions_cache, disk, handed, now, config, ghosts,
                   quit_sent>>

\* `self.save_current_session(false)?` returned Err: handle_action returns
\* the error at once, r is the outcome of the save
SaveFailed(r) ==
    /\ disk' = r.disk
    /\ handed' = r.handed
    /\ ret' = "Err"
    /\ UNCHANGED <<clock, task_description, should_quit, views, sessions_cache,
                   now, config, ghosts>>

\* (Running, Input(' ')); a mutant pauses a break as well
RunningPause_AnyMode(c) ==
    /\ Polled
    /\ state = "Running"
    /\ c \in PauseKeys
    /\ pause_start' = Some(now)
    /\ state' = "Paused"
    /\ ret' = "Ok"
    /\ UNCHANGED <<timer_mode, total_duration_secs, remaining_secs,
                   session_start, pomodoro_started_at, work_sessions_completed,
                   task_description, should_quit, views, sessions_cache, disk,
                   handed, now, config, ghosts, quit_sent>>

RunningPause(c) ==
    /\ Polled
    /\ state = "Running"
    /\ c \in PauseKeys
    /\ IF timer_mode = "Work"
       THEN /\ pause_start' = Some(now)
            /\ state' = "Paused"
       ELSE UNCHANGED <<pause_start, state>>
    /\ ret' = "Ok"
    /\ UNCHANGED <<timer_mode, total_duration_secs, remaining_secs,
                   session_start, pomodoro_started_at, work_sessions_completed,
                   task_description, should_quit, views, sessions_cache, disk,
                   handed, now, config, ghosts, quit_sent>>

\* (Running, Input('s'))
RunningSkip(c) ==
    /\ Polled
    /\ state = "Running"
    /\ c \in SkipKeys
    /\ state' = IF timer_mode # "Work" THEN "BreakFinished" ELSE state
    /\ ret' = "Ok"
    /\ UNCHANGED <<timer_mode, total_duration_secs, remaining_secs,
                   session_start, pause_start, pomodoro_started_at,
                   work_sessions_completed, task_description, should_quit,
                   views, sessions_cache, disk, handed, now, config, ghosts,
                   quit_sent>>

\* (Running, Input('r')); w: what the write of the session does
RunningStop(c, w) ==
    /\ Polled
    /\ state = "Running"
    /\ c \in StopKeys
    /\ LET r == IF timer_mode = "Work"
                THEN SaveCurrentSession(remaining_secs, FALSE, w)
                ELSE [ok |-> TRUE, disk |-> disk, handed |-> handed]
       IN  IF r.ok
           THEN /\ reset(r.disk)
                /\ disk' = r.disk
                /\ handed' = r.handed
                /\ active' = 0
                /\ ret' = "Ok"
                /\ UNCHANGED <<work_sessions_completed, should_quit, views,
                               now, config, budget, breaks_started>>
           ELSE SaveFailed(r)
    /\ UNCHANGED quit_sent

\* the quit key saving whatever the timer mode is
RunningQuit_AlwaysSave(c, w) ==
    /\ Polled
    /\ state = "Running"
    /\ c \in QuitKeys
    /\ LET r == SaveCurrentSession(remaining_secs, FALSE, w)
       IN  IF r.ok
           THEN /\ should_quit' = TRUE
                /\ disk' = r.disk
                /\ handed' = r.handed
                /\ ret' = "Ok"
                /\ UNCHANGED <<clock, task_description, views, sessions_cache,
                               now, config, ghosts>>
           ELSE SaveFailed(r)
    /\ quit_sent' = TRUE

\* (Running, Input('q'))
RunningQuit(c, w) ==
    /\ Polled
    /\ state = "Running"
    /\ c \in QuitKeys
    /\ LET r == IF timer_mode = "Work"
                THEN SaveCurrentSession(remaining_secs, FALSE, w)
                ELSE [ok |-> TRUE, disk |-> disk, handed |-> handed]
       IN  IF r.ok
           THEN /\ should_quit' = TRUE
                /\ disk' = r.disk
                /\ handed' = r.handed
                /\ ret' = "Ok"
                /\ UNCHANGED <<clock, task_description, views, sessions_cache,
                               now, config, ghosts>>
           ELSE SaveFailed(r)
    /\ quit_sent' = TRUE

\* (Running, Input('f'))
RunningFilter(c) ==
    /\ Polled
    /\ state = "Running"
    /\ c \in FilterKeys
    /\ FilterOnly

\* (Running, Input(_))
RunningOtherKey(c) ==
    /\ Polled
    /\ state = "Running"
    /\ c \notin PauseKeys \cup SkipKeys \cup StopKeys \cup QuitKeys \cup FilterKeys
    /\ NoOp

\* (Running, Tick)
RunningTick(w) ==
    /\ TickSent
    /\ state = "Running"
    /\ update_timer(w)
    /\ ret' = "Ok"
    /\ UNCHANGED <<timer_mode, total_duration_secs, session_start, pause_start,
                   pomodoro_started_at, task_description, should_quit, views,
                   now, config, ghosts, quit_sent>>

\* resume that shifts the wall-clock start as well
PausedResume_ShiftsStartedAt(c) ==
    /\ Polled
    /\ state = "Paused"
    /\ c \in PauseKeys
    /\ session_start' =
           IF pause_start # None /\ session_start # None
           THEN Some(session_start[1] + (now - pause_start[1]))
           ELSE session_start
    /\ pomodoro_started_at' =
           IF pause_start # None /\ pomodoro_started_at # None
           THEN Some(pomodoro_started_at[1] + (now - pause_start[1]))
           ELSE pomodoro_started_at
    /\ pause_start' = None
    /\ state' = "Running"
    /\ ret' = "Ok"
    /\ UNCHANGED <<timer_mode, total_duration_secs, remaining_secs,
                   work_sessions_completed,
                   task_description, should_quit, views, sessions_cache, disk,
                   handed, now, config, ghosts, quit_sent>>

\* resume that leaves session_start where it was
PausedResume_NoShift(c) ==
    /\ Polled
    /\ state = "Paused"
    /\ c \in PauseKeys
    /\ pause_start' = None
    /\ state' = "Running"
    /\ ret' = "Ok"
    /\ UNCHANGED <<timer_mode, total_duration_secs, remaining_secs,
                   session_start, pomodoro_started_at, work_sessions_completed,
                   task_description, should_quit, views, sessions_cache, disk,
                   handed, now, config, ghosts, quit_sent>>

\* resume that does not clear pause_start
PausedResume_KeepPause(c) ==
    /\ Polled
    /\ state = "Paused"
    /\ c \in PauseKeys
    /\ session_start' =
           IF pause_start # None /\ session_start # None
           THEN Some(session_start[1] + (now - pause_start[1]))
           ELSE session_start
    /\ state' = "Running"
    /\ ret' = "Ok"
    /\ UNCHANGED <<timer_mode, total_duration_secs, remaining_secs, pause_start,
                   pomodoro_started_at, work_sessions_completed,
                   task_description, should_quit, views, sessions_cache, disk,
                   handed, now, config, ghosts, quit_sent>>

\* (Paused, Input(' '))
PausedResume(c) ==
    /\ Polled
    /\ state = "Paused"
    /\ c \in PauseKeys
    /\ session_start' =
           IF pause_start # None /\ session_start # None
           THEN Some(session_start[1] + (now - pause_start[1]))
           ELSE session_start
    /\ pause_start' = None
    /\ state' = "Running"
    /\ ret' = "Ok"
    /\ UNCHANGED <<timer_mode, total_duration_secs, remaining_secs,
                   pomodoro_started_at, work_sessions_completed,
                   task_description, should_quit, views, sessions_cache, disk,
                   handed, now, config, ghosts, quit_sent>>

\* stop from Paused that resets without saving
PausedStop_NoSave(c, w) ==
    /\ Polled
    /\ state = "Paused"
    /\ c \in StopKeys
    /\ reset(disk)
    /\ active' = 0
    /\ ret' = "Ok"
    /\ UNCHANGED <<work_sessions_completed, should_quit, views, disk, handed,
                   now, config, budget, breaks_started, quit_sent>>

\* (Paused, Input('r'))
PausedStop(c, w) ==
    /\ Polled
    /\ state = "Paused"
    /\ c \in StopKeys
    /\ LET r == SaveCurrentSession(remaining_secs, FALSE, w)
       IN  IF r.ok
           THEN /\ reset(r.disk)
                /\ disk' = r.disk
                /\ handed' = r.handed
                /\ active' = 0
                /\ ret' = "Ok"
                /\ UNCHANGED <<work_sessions_completed, should_quit, views,
                               now, config, budget, breaks_started>>
           ELSE SaveFailed(r)
    /\ UNCHANGED quit_sent

\* (Paused, Input('q'))
PausedQuit(c, w) ==
    /\ Polled
    /\ state = "Paused"
    /\ c \in QuitKeys
    /\ LET r == SaveCurrentSession(remaining_secs, FALSE, w)
       IN  IF r.ok
           THEN /\ should_quit' = TRUE
                /\ disk' = r.disk
                /\ handed' = r.handed
                /\ ret' = "Ok"
                /\ UNCHANGED <<clock, task_description, views, sessions_cache,
                               now, config, ghosts>>
           ELSE SaveFailed(r)
    /\ quit_sent' = TRUE

\* (Paused, Input('f'))
PausedFilter(c) ==
    /\ Polled
    /\ state = "Paused"
    /\ c \in FilterKeys
    /\ FilterOnly

\* (Paused, Input(_))
PausedOtherKey(c) ==
    /\ Polled
    /\ state = "Paused"
    /\ c \notin PauseKeys \cup StopKeys \cup QuitKeys \cup FilterKeys
    /\ NoOp

\* (WorkFinished, Input('b'))
WorkFinishedBreak(c) ==
    /\ Polled
    /\ state = "WorkFinished"
    /\ c \in BreakKeys
    /\ start_break
    /\ active' = 0
    /\ breaks_started' = breaks_started + 1
    /\ ret' = "Ok"
    /\ UNCHANGED <<pause_start, pomodoro_started_at, task_description,
                   should_quit, views, sessions_cache, disk, handed, now,
                   config, budget, quit_sent>>

\* (WorkFinished, Input('s'))
WorkFinishedSkip(c) ==
    /\ Polled
    /\ state = "WorkFinished"
    /\ c \in SkipKeys
    /\ reset(disk)
    /\ active' = 0
    /\ ret' = "Ok"
    /\ UNCHANGED <<work_sessions_completed, should_quit, views, disk, handed,
                   now, config, budget, breaks_started, quit_sent>>

\* (WorkFinished, Input('q'))
WorkFinishedQuit(c) ==
    /\ Polled
    /\ state = "WorkFinished"
    /\ c \in QuitKeys
    /\ QuitOnly

\* (WorkFinished, Input('f'))
WorkFinishedFilter(c) ==
    /\ Polled
    /\ state = "WorkFinished"
    /\ c \in FilterKeys
    /\ FilterOnly

\* (WorkFinished, Input(_))
WorkFinishedOtherKey(c) ==
    /\ Polled
    /\ state = "WorkFinished"
    /\ c \notin BreakKeys \cup SkipKeys \cup QuitKeys \cup FilterKeys
    /\ NoOp

\* (WorkFinished, Confirm) and (BreakFinished, Confirm): the same body; a
\* mutant leaves the timer as the finished interval left it
NewTaskEntry_KeepTimer ==
    /\ state' = "EnteringTask"
    /\ task_description' = <<>>
    /\ ret' = "Ok"
    /\ UNCHANGED <<timer_mode, total_duration_secs, remaining_secs,
                   session_start, pause_start, pomodoro_started_at,
                   work_sessions_completed, should_quit, views, sessions_cache,
                   disk, handed, now, config, ghosts, quit_sent>>

NewTaskEntry ==
    /\ timer_mode' = "Work"
    /\ total_duration_secs' = work_duration_secs
    /\ remaining_secs' = work_duration_secs
    /\ state' = "EnteringTask"
    /\ task_description' = <<>>
    /\ ret' = "Ok"
    /\ UNCHANGED <<session_start, pause_start, pomodoro_started_at,
                   work_sessions_completed, should_quit, views, sessions_cache,
                   disk, handed, now, config, ghosts, quit_sent>>

WorkFinishedConfirm ==
    /\ Polled
    /\ state = "WorkFinished"
    /\ NewTaskEntry

BreakFinishedConfirm ==
    /\ Polled
    /\ state = "BreakFinished"
    /\ NewTaskEntry

\* (BreakFinished, Input('s'))
BreakFinishedSkip(c) ==
    /\ Polled
    /\ state = "BreakFinished"
    /\ c \in SkipKeys
    /\ reset(disk)
    /\ active' = 0
    /\ ret' = "Ok"
    /\ UNCHANGED <<work_sessions_completed, should_quit, views, disk, handed,
                   now, config, budget, breaks_started, quit_sent>>

\* (BreakFinished, Input('q'))
BreakFinishedQuit(c) ==
    /\ Polled
    /\ state = "BreakFinished"
    /\ c \in QuitKeys
    /\ QuitOnly

\* (BreakFinished, Input('f'))
BreakFinishedFilter(c) ==
    /\ Polled
    /\ state = "BreakFinished"
    /\ c \in FilterKeys
    /\ FilterOnly

\* (BreakFinished, Input(_))
BreakFinishedOtherKey(c) ==
    /\ Polled
    /\ state = "BreakFinished"
    /\ c \notin SkipKeys \cup QuitKeys \cup FilterKeys
    /\ NoOp

\* the actions of src/src/action.rs other than Input(char)
PlainActions == {"Start", "Pause", "Resume", "Stop", "Quit", "Tick",
                 "Backspace", "Confirm", "Cancel", "NextTab", "PrevTab",
                 "CycleFilter", "ScrollUp", "ScrollDown", "None"}

\* the (state, action) pairs no arm of handle_action matches
Unmatched(a) ==
    IF a \in {"Start", "Pause", "Resume", "Stop", "Quit", "CycleFilter", "None"}
    THEN TRUE
    ELSE IF a = "Tick" THEN state # "Running"
    ELSE IF a \in {"Backspace", "Cancel"} THEN state # "EnteringTask"
    ELSE IF a = "Confirm" THEN state \in {"Running", "Paused"}
    ELSE IF a \in {"NextTab", "PrevTab"} THEN state = "EnteringTask"
    ELSE FALSE

\* a Tick arm that matches every state: `(_, Action::Tick) => update_timer()`
Ignored_TickUpdates(a) ==
    /\ Polled
    /\ Unmatched(a)
    /\ IF a = "Tick"
       THEN /\ update_timer("written")
            /\ ret' = "Ok"
            /\ UNCHANGED <<timer_mode, total_duration_secs, session_start,
                           pause_start, pomodoro_started_at, task_description,
                           should_quit, views, now, config, ghosts, quit_sent>>
       ELSE NoOp

\* the final arm `_ => {}`
Ignored(a) ==
    /\ Polled
    /\ Unmatched(a)
    /\ NoOp

\* Action::Quit, which Tui::poll_event sends for Ctrl-C: no arm of
\* handle_action names it, so it falls to the final arm `_ => {}`
CtrlC ==
    /\ Polled
    /\ Unmatched("Quit")
    /\ ret' = "Ok"
    /\ quit_sent' = TRUE
    /\ UNCHANGED <<clock, task_description, should_quit, views, sessions_cache,
                   disk, handed, now, config, ghosts>>

\* run_timer driving handle_action: any action at any time while the loop
\* runs; the iteration that handled the quit key still sends its Tick when the
\* state is Running (RunningTick is guarded by TickSent, not by Polled).
\* Next leaves the view on the Timer tab: the tab and scroll keys are
\* delivered under NextViews, Action::Quit (Ctrl-C) under NextQuit.
Next ==
    \/ Advance
    \/ IdleConfirm
    \/ \E c \in TaskChars \cup {"q"} : IdleInput(c)
    \/ \E c \in TaskChars : EnteringTaskInput(c)
    \/ EnteringTaskBackspace
    \/ EnteringTaskConfirm
    \/ EnteringTaskCancel
    \/ \E c \in Chars : RunningPause(c)
    \/ \E c \in Chars : RunningSkip(c)
    \/ \E c \in Chars, w \in ClockWrites : RunningStop(c, w)
    \/ \E c \in Chars, w \in ClockWrites : RunningQuit(c, w)
    \/ \E c \in Chars : RunningFilter(c)
    \/ \E c \in Chars : RunningOtherKey(c)
    \/ \E w \in ClockWrites : RunningTick(w)
    \/ \E c \in Chars : PausedResume(c)
    \/ \E c \in Chars, w \in ClockWrites : PausedStop(c, w)
    \/ \E c \in Chars, w \in ClockWrites : PausedQuit(c, w)
    \/ \E c \in Chars : PausedFilter(c)
    \/ \E c \in Chars : PausedOtherKey(c)
    \/ \E c \in Chars : WorkFinishedBreak(c)
    \/ \E c \in Chars : WorkFinishedSkip(c)
    \/ \E c \in Chars : WorkFinishedQuit(c)
    \/ \E c \in Chars : WorkFinishedFilter(c)
    \/ \E c \in Chars : WorkFinishedOtherKey(c)
    \/ WorkFinishedConfirm
    \/ BreakFinishedConfirm
    \/ \E c \in Chars : BreakFinishedSkip(c)
    \/ \E c \in Chars : BreakFinishedQuit(c)
    \/ \E c \in Chars : BreakFinishedFilter(c)
    \/ \E c \in Chars : BreakFinishedOtherKey(c)
    \/ \E a \in PlainActions \ {"Quit"} : Ignored(a)

Spec == Init /\ [][Next]_vars

\* the zero-minute pomodoro with a long break every second completion and no
\* sessions file yet, with room for two more work intervals
InitBreaks ==
    /\ work_duration_secs = 0
    /\ total_duration_secs = 0
    /\ remaining_secs = 0
    /\ \E sb \in ShortBreakMinutes : short_break_secs = sb * SecsPerMin
    /\ \E lb \in LongBreakMinutes : long_break_secs = lb * SecsPerMin
    /\ sessions_until_long_break = 2
    /\ disk = NoFile
    /\ sessions_cache = LoadOrDefault(disk)
    /\ state = "Idle"
    /\ should_quit = FALSE
    /\ task_description = <<>>
    /\ session_start = None
    /\ pause_start = None
    /\ pomodoro_started_at = None
    /\ current_view = "Timer"
    /\ session_filter = "Week"
    /\ history_selected = 0
    /\ timer_mode = "Work"
    /\ work_sessions_completed = 0
    /\ now = 0
    /\ handed = <<>>
    /\ active = 0
    /\ budget = MaxIntervals + 2
    /\ breaks_started = 0
    /\ ret = "Ok"
    /\ quit_sent = FALSE

\* the user who names each pomodoro with one key and takes the break after
\* every completed one: in EnteringTask no further text is typed, in
\* WorkFinished the skip, Enter and quit keys are not pressed
NextBreaks ==
    \/ Advance
    \/ IdleConfirm
    \/ \E c \in TaskChars \cup {"q"} : IdleInput(c)
    \/ EnteringTaskConfirm
    \/ EnteringTaskCancel
    \/ \E c \in Chars : RunningPause(c)
    \/ \E c \in Chars : RunningSkip(c)
    \/ \E c \in Chars, w \in ClockWrites : RunningStop(c, w)
    \/ \E c \in Chars, w \in ClockWrites : RunningQuit(c, w)
    \/ \E c \in Chars : RunningFilter(c)
    \/ \E c \in Chars : RunningOtherKey(c)
    \/ \E w \in ClockWrites : RunningTick(w)
    \/ \E c \in Chars : PausedResume(c)
    \/ \E c \in Chars, w \in ClockWrites : PausedStop(c, w)
    \/ \E c \in Chars, w \in ClockWrites : PausedQuit(c, w)
    \/ \E c \in Chars : PausedFilter(c)
    \/ \E c \in Chars : PausedOtherKey(c)
    \/ \E c \in Chars : WorkFinishedBreak(c)
    \/ \E c \in Chars : WorkFinishedFilter(c)
    \/ \E c \in Chars : WorkFinishedOtherKey(c)
    \/ BreakFinishedConfirm
    \/ \E c \in Chars : BreakFinishedSkip(c)
    \/ \E c \in Chars : BreakFinishedQuit(c)
    \/ \E c \in Chars : BreakFinishedFilter(c)
    \/ \E c \in Chars : BreakFinishedOtherKey(c)
    \/ \E a \in PlainActions \ {"Quit"} : Ignored(a)

SpecBreaks == InitBreaks /\ [][NextBreaks]_vars

\* the same driver with the tab and scroll keys delivered as well
NextViews ==
    \/ Next
    \/ NextTab
    \/ PrevTab
    \/ ScrollUp
    \/ ScrollDown

SpecViews == Init /\ [][NextViews]_vars

\* run_timer with Ctrl-C among the keys
NextQuit == Next \/ CtrlC

SpecQuit == Init /\ [][NextQuit]_vars

\* ---- the History and Stats views over a sessions file of earlier runs ----
\* the clock reading at which local day d begins
DayStart(d) == d * SecsPerDay * TicksPerSec

\* the days the stored sessions were started on, the present day being
\* WeekDays + 1: before the week, its first day, today, and the day after
\* (a file written before the system clock was set back, or on another
\* machine)
FilterDays == {0, 1, WeekDays + 1, WeekDays + 2}

\* the sessions files found at startup: up to two sessions
StoredSessions == {NewSession(<<"f">>, DayStart(d), 0, TRUE) : d \in FilterDays}
FileLists ==
    {<<>>} \cup {<<x>> : x \in StoredSessions}
           \cup {<<x, y>> : x \in StoredSessions, y \in StoredSessions}

\* App::new on day WeekDays + 1 with such a file
InitFilter ==
    /\ \E dm \in DurationMinutes :
          /\ work_duration_secs = dm * SecsPerMin
          /\ total_duration_secs = dm * SecsPerMin
          /\ remaining_secs = dm * SecsPerMin
    /\ \E sb \in ShortBreakMinutes : short_break_secs = sb * SecsPerMin
    /\ \E lb \in LongBreakMinutes : long_break_secs = lb * SecsPerMin
    /\ sessions_until_long_break \in LongBreakIntervals
    /\ \E ss \in FileLists : disk = ListFile(ss)
    /\ sessions_cache = LoadOrDefault(disk)
    /\ state = "Idle"
    /\ should_quit = FALSE
    /\ task_description = <<>>
    /\ session_start = None
    /\ pause_start = None
    /\ pomodoro_started_at = None
    /\ current_view = "Timer"
    /\ session_filter = "Week"
    /\ history_selected = 0
    /\ timer_mode = "Work"
    /\ work_sessions_completed = 0
    /\ now = DayStart(WeekDays + 1)
    /\ handed = <<>>
    /\ active = 0
    /\ budget = MaxIntervals
    /\ breaks_started = 0
    /\ ret = "Ok"
    /\ quit_sent = FALSE

\* the user browsing: tab, scroll and filter keys and Enter in Idle
NextFilter ==
    \/ IdleConfirm
    \/ NextTab
    \/ PrevTab
    \/ ScrollUp
    \/ ScrollDown
    \/ \E c \in FilterKeys : IdleInput(c)
    \/ EnteringTaskCancel

SpecFilter == InitFilter /\ [][NextFilter]_vars

\* ---- the statistics (src/src/app.rs, src/src/components/session_list.rs) ----
\* Sums of seconds are kept as two halves, n = hi * Half + lo with
\* 0 <= lo < Half, so that a u32 (hi < Half) and a u64 are told apart.
ToWide(n) == [hi |-> n \div Half, lo |-> n % Half]

\* u64 addition (never reaches 2^64 here)
AddWide(a, b) ==
    LET lo == a.lo + b.lo
    IN  [hi |-> a.hi + b.hi + (lo \div Half), lo |-> lo % Half]

\* the value kept by a u32 after wrapping
WrapU32(a) == [hi |-> a.hi % Half, lo |-> a.lo]

\* u32 / n for 0 < n < Half
DivWide(a, n) ==
    LET rest == (a.hi % n) * Half + a.lo
    IN  [hi |-> a.hi \div n, lo |-> rest \div n]

\* App::focus_time_for_date: the records of the cache are filtered by date and
\* their durations summed as u64; a mutant sums what the filter shows
RECURSIVE FocusFold(_, _, _)
FocusFold(ss, date, acc) ==
    IF ss = <<>> THEN acc
    ELSE FocusFold(Tail(ss), date,
                   IF LocalDate(Head(ss).started_at) = date
                   THEN AddWide(acc, ToWide(Head(ss).duration_secs))
                   ELSE acc)

focus_time_for_date_filtered(date) == FocusFold(filtered_sessions, date, ToWide(0))

focus_time_for_date(date) == FocusFold(sessions_cache, date, ToWide(0))

\* (0..7).rev(): days_ago = 6, 5, .., 0; a mutant leaves out .rev()
DaysAgo_Forward(i) == i - 1

DaysAgo(i) == ChartDays - i

\* App::daily_focus_data
daily_focus_data ==
    [i \in 1..ChartDays |-> focus_time_for_date(LocalDate(now) - DaysAgo(i))]

\* target_date.weekday() (day 0 of the clock is taken as a Monday)
DayLabels == <<"Mon", "Tue", "Wed", "Thu", "Fri", "Sat", "Sun">>
Weekday(date) == DayLabels[(date % ChartDays) + 1]

\* App::weekly_bar_data
weekly_bar_data ==
    [i \in 1..ChartDays |->
        LET target_date == LocalDate(now) - DaysAgo(i)
        IN  <<Weekday(target_date), focus_time_for_date(target_date)>>]

\* the build profile decides what a u32 overflow does: overflow-checks (dev)
\* panics, without them (release) the sum wraps
Builds == {"dev", "release"}

\* Iterator::sum::<u32>() over the durations
RECURSIVE SumU32(_, _, _)
SumU32(ss, acc, build) ==
    IF ss = <<>> THEN [panicked |-> FALSE, value |-> acc]
    ELSE LET s == AddWide(acc, ToWide(Head(ss).duration_secs))
         IN  IF s.hi >= Half /\ build = "dev"
             THEN [panicked |-> TRUE, value |-> ToWide(0)]
             ELSE SumU32(Tail(ss), WrapU32(s), build)

\* filter(|s| s.completed).count()
RECURSIVE CountCompleted(_)
CountCompleted(ss) ==
    IF ss = <<>> THEN 0
    ELSE (IF Head(ss).completed THEN 1 ELSE 0) + CountCompleted(Tail(ss))

\* SessionStats::from_sessions
from_sessions(ss, build) ==
    LET total_sessions == Len(ss)
        completed_sessions == CountCompleted(ss)
        total == SumU32(ss, ToWide(0), build)
    IN  IF total.panicked THEN [panicked |-> TRUE]
        ELSE [panicked |-> FALSE,
              total_sessions |-> total_sessions,
              completed_sessions |-> completed_sessions,
              interrupted_sessions |-> total_sessions - completed_sessions,
              total_focus_time_secs |-> total.value,
              average_duration_secs |->
                  IF total_sessions > 0
                  THEN DivWide(total.value, total_sessions)
                  ELSE ToWide(0)]

\* the Stats view (components/stats.rs): the summary of what the filter shows
stats_summary(build) == from_sessions(filtered_sessions, build)

\* the days the stored sessions were started on, today being WeekDays + 1:
\* the day before the chart, its first day, today, and the day after
StatsDays == {1, 2, WeekDays + 1, WeekDays + 2}
\* a session's duration_secs is a u32: a short completed session, or a very
\* long interrupted one
StatsSessions ==
    {NewSession(<<"f">>, DayStart(d) + TicksPerSec, 1, TRUE) : d \in StatsDays}
    \cup {NewSession(<<"f">>, DayStart(d), LongSecs, FALSE) : d \in StatsDays}

\* the sessions files found at startup: up to three sessions
StatsFiles ==
    {<<>>} \cup {<<x>> : x \in StatsSessions}
           \cup {<<x, y>> : x \in StatsSessions, y \in StatsSessions}
           \cup {<<x, y, z>> : x \in StatsSessions, y \in StatsSessions,
                               z \in StatsSessions}

\* App::new on day WeekDays + 1 with such a file
InitStats ==
    /\ work_duration_secs = SecsPerMin
    /\ total_duration_secs = SecsPerMin
    /\ remaining_secs = SecsPerMin
    /\ \E sb \in ShortBreakMinutes : short_break_secs = sb * SecsPerMin
    /\ \E lb \in LongBreakMinutes : long_break_secs = lb * SecsPerMin
    /\ sessions_until_long_break = 1
    /\ \E ss \in StatsFiles : disk = ListFile(ss)
    /\ sessions_cache = LoadOrDefault(disk)
    /\ state = "Idle"
    /\ should_quit = FALSE
    /\ task_description = <<>>
    /\ session_start = None
    /\ pause_start = None
    /\ pomodoro_started_at = None
    /\ current_view = "Timer"
    /\ session_filter = "Week"
    /\ history_selected = 0
    /\ timer_mode = "Work"
    /\ work_sessions_completed = 0
    /\ now = DayStart(WeekDays + 1)
    /\ handed = <<>>
    /\ active = 0
    /\ budget = MaxIntervals
    /\ breaks_started = 0
    /\ ret = "Ok"
    /\ quit_sent = FALSE

\* the user browsing the History and Stats views
SpecStats == InitStats /\ [][NextFilter]_vars

\* ---- the sessions file under saves and loads (src/src/storage.rs) ----
\* the files found at startup: none, a blank one, one that does not parse, or
\* a list of up to two sessions
StoreFiles == {NoFile, BlankFile, MalformedFile} \cup {ListFile(ss) : ss \in FileLists}

\* App::new with such a file; up to MaxIntervals + 1 sessions will be saved
InitStore ==
    /\ work_duration_secs = SecsPerMin
    /\ total_duration_secs = SecsPerMin
    /\ remaining_secs = SecsPerMin
    /\ \E sb \in ShortBreakMinutes : short_break_secs = sb * SecsPerMin
    /\ \E lb \in LongBreakMinutes : long_break_secs = lb * SecsPerMin
    /\ sessions_until_long_break = 1
    /\ disk \in StoreFiles
    /\ sessions_cache = LoadOrDefault(disk)
    /\ state = "Idle"
    /\ should_quit = FALSE
    /\ task_description = <<>>
    /\ session_start = None
    /\ pause_start = None
    /\ pomodoro_started_at = None
    /\ current_view = "Timer"
    /\ session_filter = "Week"
    /\ history_selected = 0
    /\ timer_mode = "Work"
    /\ work_sessions_completed = 0
    /\ now = DayStart(WeekDays + 1)
    /\ handed = <<>>
    /\ active = 0
    /\ budget = MaxIntervals + 1
    /\ breaks_started = 0
    /\ ret = "Ok"
    /\ quit_sent = FALSE

\* Storage::save_session(session) called with any session, fs::write ending
\* in any of its outcomes; ret is the Result
StoreSave(session, w) ==
    /\ budget > 0
    /\ budget' = budget - 1
    /\ LET r == SaveSession(disk, session, w)
       IN  /\ disk' = r.disk
           /\ ret' = IF r.ok THEN "Ok" ELSE "Err"
    /\ handed' = Append(handed, session)
    /\ UNCHANGED <<clock, task_description, should_quit, views, sessions_cache,
                   now, config, active, breaks_started, quit_sent>>

\* saves, and the tab keys, which reload the cache from the file
NextStore ==
    \/ \E session \in StoredSessions, w \in WriteOutcomes : StoreSave(session, w)
    \/ NextTab
    \/ PrevTab

SpecStore == InitStore /\ [][NextStore]_vars

\* ---- the list and stats commands (src/src/main.rs) ----
\* the window flags of `list` and `stats`
WindowFlags == {"today", "week", "all"}

\* clap: `today` and `week` each carry conflicts_with = "all" (a conflict holds
\* in both directions); nothing is declared between `today` and `week`
ClapAccepts(flags) == ~("all" \in flags /\ flags \cap {"today", "week"} # {})

\* main: if today .. else if all .. else if week .. else Week
WindowOf(flags) ==
    IF "today" \in flags THEN "Today"
    ELSE IF "all" \in flags THEN "All"
    ELSE IF "week" \in flags THEN "Week"
    ELSE "Week"

\* the arguments parse and the file loads (`storage.load_sessions()?`)
CliRuns(flags) == ClapAccepts(flags) /\ LoadSessions(disk).ok

\* one run of a command: the arguments are parsed, the file is loaded, the
\* sessions of the window are shown, and the process ends; ret is its result
CliCommand(flags) ==
    /\ ~should_quit
    /\ should_quit' = TRUE
    /\ IF CliRuns(flags)
       THEN /\ ret' = "Ok"
            /\ session_filter' = WindowOf(flags)
            /\ sessions_cache' = LoadSessions(disk).sessions
       ELSE /\ ret' = "Err"
            /\ UNCHANGED <<session_filter, sessions_cache>>
    /\ UNCHANGED <<clock, task_description, history_selected, disk, handed,
                   now, config, ghosts, quit_sent>>

\* Commands::List -> list_sessions(filter): the sessions are listed
ListCommand(flags) ==
    /\ CliCommand(flags)
    /\ current_view' = IF CliRuns(flags) THEN "History" ELSE current_view

\* Commands::Stats -> show_stats(filter): the sessions are summarised
StatsCommand(flags) ==
    /\ CliCommand(flags)
    /\ current_view' = IF CliRuns(flags) THEN "Stats" ELSE current_view

NextCli ==
    \/ \E flags \in SUBSET WindowFlags : ListCommand(flags)
    \/ \E flags \in SUBSET WindowFlags : StatsCommand(flags)

SpecCli == InitStore /\ [][NextCli]_vars

\* ---- typing the task: every key of the keyboard in EnteringTask ----
NextTyping ==
    \/ Advance
    \/ IdleConfirm
    \/ \E c \in Chars : IdleInput(c)
    \/ \E c \in Chars : EnteringTaskInput(c)
    \/ EnteringTaskBackspace
    \/ EnteringTaskCancel
    \/ EnteringTaskConfirm

SpecTyping == Init /\ [][NextTyping]_vars

\* ---- the main loop left alone while the timer runs ----
\* wall-clock time passes; a running interval is never cut short by the
\* horizon of the model
AdvanceLive ==
    /\ Polled
    /\ \/ now < MaxTime
       \/ /\ state = "Running"
          /\ session_start # None
          /\ ElapsedSecs(session_start[1]) < total_duration_secs
    /\ now' = now + 1
    /\ active' = IF state = "Running" THEN active + 1 ELSE active
    /\ UNCHANGED <<clock, task_description, should_quit, views, sessions_cache,
                   disk, handed, config, budget, breaks_started, ret,
                   quit_sent>>

\* keys arrive only outside Running; run_timer sends the Tick in every
\* iteration while the state is Running
NextLive ==
    \/ AdvanceLive
    \/ IdleConfirm
    \/ \E c \in TaskChars : EnteringTaskInput(c)
    \/ EnteringTaskConfirm
    \/ \E w \in ClockWrites : RunningTick(w)
    \/ \E c \in Chars : WorkFinishedBreak(c)
    \/ BreakFinishedConfirm

SpecLive ==
    /\ Init
    /\ [][NextLive]_vars
    /\ WF_vars(AdvanceLive)
    /\ WF_vars(\E w \in ClockWrites : RunningTick(w))

\* ---- properties ----
\* the steps that are a Tick, a stop key, a break key
TickStep == \E w \in ClockWrites : RunningTick(w)
BreakKeyStep == \E c \in Chars : WorkFinishedBreak(c)
RunningStopStep == \E c \in Chars, w \in ClockWrites : RunningStop(c, w)

\* whole seconds the current interval has spent in Running
ActiveSecs == active \div TicksPerSec

\* the session a save of the current interval hands to the store
SessionOf(duration, completed) ==
    NewSession(task_description, pomodoro_started_at[1], duration, completed)

\* work intervals completed so far
Completions == Cardinality({i \in 1..Len(handed) : handed[i].completed})

\* C1: after every sequence of actions, at any times,
\* 0 <= remaining_secs <= total_duration_secs
C1_RemainingWithinTotal ==
    0 <= remaining_secs /\ remaining_secs <= total_duration_secs

\* a Tick has moved remaining strictly inside the interval
C1_Witness ==
    /\ state = "Running"
    /\ 0 < remaining_secs
    /\ remaining_secs < total_duration_secs

\* C2: a Tick of a work interval computes the elapsed time as the whole
\* seconds spent in Running since the interval started, the paused spans left
\* out, whatever the number of pause/resume pairs
C2_PausedSpanExcluded ==
    [][TickStep /\ timer_mode = "Work" =>
          remaining_secs' = IF ActiveSecs >= total_duration_secs THEN 0
                            ELSE total_duration_secs - ActiveSecs]_vars

\* a work interval of non-zero length, paused for a while, resumed and then
\* completed by a Tick
C2_Witness ==
    /\ state = "WorkFinished"
    /\ work_duration_secs > 0
    /\ remaining_secs = 0
    /\ session_start[1] > pomodoro_started_at[1]
    /\ ActiveSecs = total_duration_secs

\* a step that ends a work interval: the state leaves Running/Paused, or the
\* step tells the process to end (quit, or an error returned to run_timer)
EndsWorkInterval ==
    /\ state \in {"Running", "Paused"}
    /\ timer_mode = "Work"
    /\ Trim(task_description) # <<>>
    /\ \/ state' \notin {"Running", "Paused"}
       \/ should_quit' # should_quit
       \/ ret' = "Err"

C4_BreaksNeverPersisted ==
    [][(timer_mode \in {"ShortBreak", "LongBreak"}) =>
          (handed' = handed /\ disk' = disk)]_vars

\* the quit key was handled during a running break
C4_Witness ==
    /\ state = "Running"
    /\ timer_mode \in {"ShortBreak", "LongBreak"}
    /\ should_quit

\* a Tick that completes a work interval; a break key that selects a long break
TickCompletesWork == TickStep /\ timer_mode = "Work" /\ state' = "WorkFinished"
LongBreakChosen == BreakKeyStep /\ timer_mode' = "LongBreak"

\* C5: work_sessions_completed grows by exactly 1 on a Tick that completes a
\* work interval, becomes 0 when start_break selects a long break, and is
\* left alone by every other step
C5_CounterSteps ==
    [][/\ TickCompletesWork => work_sessions_completed' = work_sessions_completed + 1
       /\ LongBreakChosen => work_sessions_completed' = 0
       /\ ~TickCompletesWork /\ ~LongBreakChosen =>
              work_sessions_completed' = work_sessions_completed]_vars

\* a completing Tick has counted a pomodoro and the long break that followed
\* has reset the counter
C5_Witness ==
    /\ timer_mode = "LongBreak"
    /\ work_sessions_completed = 0
    /\ Completions >= 1

\* what start_break is to select from the counter
BreakKindChosen ==
    IF work_sessions_completed >= sessions_until_long_break
    THEN /\ timer_mode' = "LongBreak"
         /\ total_duration_secs' = long_break_secs
         /\ remaining_secs' = long_break_secs
    ELSE /\ timer_mode' = "ShortBreak"
         /\ total_duration_secs' = short_break_secs
         /\ remaining_secs' = short_break_secs

\* with a break started after every completion, the break after the k-th
\* completion is long exactly when k is a multiple of the interval
BreakEveryCompletion ==
    /\ state = "Running"
    /\ timer_mode \in {"ShortBreak", "LongBreak"}
    /\ breaks_started = Completions
    /\ sessions_until_long_break > 0
    => (timer_mode = "LongBreak" <=>
            Completions % sessions_until_long_break = 0)

\* C6: the break key in WorkFinished starts Running with LongBreak (total =
\* remaining = long_break_secs) exactly when work_sessions_completed >=
\* sessions_until_long_break, otherwise ShortBreak (total = remaining =
\* short_break_secs); with a break after every completion the break after the
\* n-th completion is long and the one after the (n+1)-th is short, n being
\* sessions_until_long_break >= 2
C6_BreakSelection ==
    /\ [][BreakKeyStep => (state' = "Running" /\ BreakKindChosen)]_vars
    /\ []BreakEveryCompletion

\* the break after the completion following a long break is a short one
C6_Witness ==
    /\ state = "Running"
    /\ timer_mode = "ShortBreak"
    /\ sessions_until_long_break = 2
    /\ breaks_started = 3
    /\ Completions = 3

\* what a Tick in Running is to do, elapsed being the whole seconds since
\* session_start
TickOutcome ==
    LET elapsed == (now - session_start[1]) \div TicksPerSec
        record == SessionOf(total_duration_secs, TRUE)
    IN  IF elapsed >= total_duration_secs
        THEN /\ remaining_secs' = 0
             /\ IF timer_mode = "Work"
                THEN /\ state' = "WorkFinished"
                     /\ work_sessions_completed' = work_sessions_completed + 1
                     /\ handed' = Append(handed, record)
                     /\ LoadSessions(disk).ok =>
                            disk' = ListFile(Append(LoadSessions(disk).sessions,
                                                    record))
                ELSE /\ state' = "BreakFinished"
                     /\ handed' = handed
        ELSE /\ state' = "Running"
             /\ remaining_secs' = total_duration_secs - elapsed
             /\ handed' = handed

\* C7: a Tick in Running with elapsed >= total, however late, sets remaining
\* to 0 and moves a work interval to WorkFinished, incrementing
\* work_sessions_completed and persisting a record with completed = true and
\* duration_worked = total_duration, and a break to BreakFinished; with
\* elapsed < total the state stays Running and remaining = total - elapsed
C7_TickCompletion ==
    [][TickStep => TickOutcome]_vars

\* a work interval completed by a Tick that came after the interval's end
C7_Witness ==
    /\ state = "WorkFinished"
    /\ remaining_secs = 0
    /\ ActiveSecs > total_duration_secs
    /\ handed # <<>>
    /\ handed[Len(handed)].completed
    /\ handed[Len(handed)].duration_secs = total_duration_secs
    /\ disk.kind = "list"

\* C8 (as claimed): the stop key in Running(Work) before the interval's end,
\* the file being loadable, persists a record with completed = false whose
\* duration_worked is the active elapsed time at the moment of the stop, and
\* moves to Idle
C8_StopRecordsElapsedAtStop ==
    [][/\ RunningStopStep
       /\ timer_mode = "Work"
       /\ ActiveSecs < total_duration_secs
       /\ LoadSessions(disk).ok
       =>
          /\ handed' = Append(handed, SessionOf(ActiveSecs, FALSE))
          /\ state' = "Idle"]_vars

\* C9 (as claimed): session_start is set only in Running and Paused
C9_SessionStartOnlyWhileTimed ==
    session_start # None => state \in {"Running", "Paused"}

\* C10: pause_start is set exactly while the state is Paused
C10_PauseStartOnlyWhilePaused ==
    pause_start # None <=> state = "Paused"

\* a paused interval was resumed after a pause of non-zero length
C10_Witness ==
    /\ state = "Running"
    /\ pause_start = None
    /\ session_start[1] > pomodoro_started_at[1]

\* C11 (as claimed): once a quit intent has been delivered, by the quit key
\* or as Action::Quit from Ctrl-C, in whatever phase, should_quit is true
C11_QuitIntentSignalsTermination == quit_sent => should_quit

\* the steps that deliver a quit intent: the quit key in the phases where it
\* is one, and Action::Quit
QuitKeyStep ==
    \E c \in QuitKeys :
        \/ IdleInput(c)
        \/ \E w \in ClockWrites : RunningQuit(c, w)
        \/ \E w \in ClockWrites : PausedQuit(c, w)
        \/ WorkFinishedQuit(c)
        \/ BreakFinishedQuit(c)
QuitStep == QuitKeyStep \/ CtrlC

\* a work interval is under way
MidWork == state \in {"Running", "Paused"} /\ timer_mode = "Work"

\* C12 (as claimed): a quit received mid-work with a non-empty trimmed task
\* hands a record with completed = false to the store (in the same call,
\* before should_quit is set); a quit in any other phase hands nothing
C12_QuitMidWorkPersists ==
    [][QuitStep =>
          IF MidWork /\ Trim(task_description) # <<>>
          THEN handed' = Append(handed,
                   SessionOf(total_duration_secs - remaining_secs, FALSE))
          ELSE handed' = handed /\ disk' = disk]_vars

\* the stop key in Paused
PausedStopStep == \E c \in Chars, w \in ClockWrites : PausedStop(c, w)

\* a step that hands a record to a store that cannot take it
FailedSave == handed' # handed /\ ~LoadSessions(disk).ok

\* C13 (as claimed): when the save of an emitted record fails the transition
\* is made all the same: a completing Tick ends in WorkFinished with
\* remaining 0 and the pomodoro counted, a stop from Running(Work) or Paused
\* ends in Idle with the clock reset
C13_FailedSaveKeepsTransition ==
    [][FailedSave =>
          /\ TickStep =>
                 /\ state' = "WorkFinished"
                 /\ remaining_secs' = 0
                 /\ work_sessions_completed' = work_sessions_completed + 1
          /\ (RunningStopStep \/ PausedStopStep) =>
                 /\ state' = "Idle"
                 /\ timer_mode' = "Work"
                 /\ total_duration_secs' = work_duration_secs
                 /\ remaining_secs' = work_duration_secs
                 /\ session_start' = None
                 /\ pause_start' = None]_vars

\* C14 (as claimed): whenever the save of an emitted record fails,
\* handle_action returns the error to its caller, also for the record of a
\* work interval completed by a Tick
C14_FailedSaveReported == [][FailedSave => ret' = "Err"]_vars

\* run_timer has left its loop
LoopEnded == ~Polled

\* C15 (as claimed): after startup run_timer leaves its loop only through
\* should_quit; a failed save while handling an action does not end it
C15_LoopEndsOnlyByQuit == LoopEnded => should_quit

\* the steps at a (phase, action) pair that is no transition of the clock:
\* the pairs no arm matches, the keys of a phase that no inner arm matches,
\* the pause key during a break, the skip key during work, Enter on a blank
\* task
NoTransitionStep ==
    \/ \E a \in PlainActions \ {"Quit"} : Ignored(a)
    \/ \E c \in Chars :
          \/ RunningPause(c) /\ timer_mode # "Work"
          \/ RunningSkip(c) /\ timer_mode = "Work"
          \/ RunningOtherKey(c)
          \/ PausedOtherKey(c)
          \/ WorkFinishedOtherKey(c)
          \/ BreakFinishedOtherKey(c)
    \/ EnteringTaskConfirm /\ Trim(task_description) = <<>>

RemainingAt(t, start, total) ==
    LET elapsed == (t - start) \div TicksPerSec
    IN  IF elapsed >= total THEN 0 ELSE total - elapsed
PhaseAt(t, start, total, mode) ==
    IF (t - start) \div TicksPerSec >= total
    THEN IF mode = "Work" THEN "WorkFinished" ELSE "BreakFinished"
    ELSE "Running"

\* interval_start is the present time less the time the interval has spent
\* running: the start time moved on by the paused spans, whatever Ticks came
StartFromKeyTimes == state = "Running" => session_start = Some(now - active)

\* C17: remaining and phase after a Tick are functions of the time of the
\* Tick, interval_start and total_duration alone, and interval_start follows
\* from the start, pause and resume times alone: a Tick changes none of
\* interval_start, pause_start, total and timer_mode, so earlier Ticks, many,
\* few or none, make no difference
C17_TickFromTimestamps ==
    /\ [][TickStep =>
            /\ remaining_secs' = RemainingAt(now, session_start[1],
                                             total_duration_secs)
            /\ state' = PhaseAt(now, session_start[1], total_duration_secs,
                                timer_mode)
            /\ UNCHANGED <<session_start, pause_start, total_duration_secs,
                           timer_mode>>]_vars
    /\ []StartFromKeyTimes

\* a Tick one second or more into the running time of a paused and resumed
\* work interval has set remaining from the timestamps
C17_Witness ==
    /\ state = "Running"
    /\ timer_mode = "Work"
    /\ session_start[1] > pomodoro_started_at[1]
    /\ ActiveSecs >= 1
    /\ remaining_secs = total_duration_secs - ActiveSecs

\* a Tick handed to handle_action outside Running
StrayTickStep == Ignored("Tick")

\* C18: while the phase is Paused, time passing and any Tick leave remaining,
\* total and the phase unchanged; run_timer sends its Tick in Running only
C18_PausedClockStands ==
    /\ [][(state = "Paused" /\ (Advance \/ StrayTickStep)) =>
            UNCHANGED <<remaining_secs, total_duration_secs, state>>]_vars
    /\ [][TickStep => state = "Running"]_vars

\* an interval paused part-way, with time gone by since the pause
C18_Witness ==
    /\ state = "Paused"
    /\ now > pause_start[1]
    /\ 0 < remaining_secs
    /\ remaining_secs < total_duration_secs

\* C19: every Session handed to the store has a task with a character that
\* is not whitespace
C19_RecordsHaveTask ==
    \A i \in 1..Len(handed) :
        \E j \in 1..Len(handed[i].task) : handed[i].task[j] # " "

\* a record has been stored and the next task typed is blank, which Enter
\* does not accept
C19_Witness ==
    /\ handed # <<>>
    /\ state = "EnteringTask"
    /\ task_description # <<>>
    /\ Trim(task_description) = <<>>

\* the sessions of ss the filter f is to show on day D, in the order of ss
RECURSIVE ShownOn(_, _, _)
ShownOn(ss, f, D) ==
    IF ss = <<>> THEN <<>>
    ELSE LET d == LocalDate(Head(ss).started_at)
             shown == IF f = "Today" THEN d = D
                      ELSE IF f = "Week" THEN D - WeekDays <= d /\ d <= D
                      ELSE TRUE
         IN  (IF shown THEN <<Head(ss)>> ELSE <<>>) \o ShownOn(Tail(ss), f, D)

\* C20 (as claimed): with reference date D, Today shows exactly the records
\* of local date D, Week exactly those of local date in [D-7, D] (none dated
\* after D), All every record, in the order of the input
C20_FilterWindows ==
    filtered_sessions = ShownOn(sessions_cache, session_filter, LocalDate(now))

\* the exact total of the durations of the records of ss[1..n] started on `day`
RECURSIVE TotalOn(_, _, _)
TotalOn(ss, n, day) ==
    IF n = 0 THEN ToWide(0)
    ELSE AddWide(TotalOn(ss, n - 1, day),
                 IF LocalDate(ss[n].started_at) = day
                 THEN ToWide(ss[n].duration_secs) ELSE ToWide(0))

\* C21: daily_focus_data returns exactly 7 values, oldest first, for the days
\* D-6 .. D: the value of a day is the sum of duration_secs of the cached
\* records started on that local day, 0 for a day without a record, for every
\* record list, the empty one included.
C21_DailyTotals ==
    /\ DOMAIN daily_focus_data = 1..7
    /\ \A k \in 0..6 :
          daily_focus_data[7 - k] =
              TotalOn(sessions_cache, Len(sessions_cache), LocalDate(now) - k)

\* the cache holds a record of the first day of the chart, a record of
\* today, and a record outside the seven days
C21_Witness ==
    /\ daily_focus_data[1] = ToWide(1)
    /\ daily_focus_data[7] = ToWide(LongSecs)
    /\ daily_focus_data[2] = ToWide(0)
    /\ \E i \in 1..Len(sessions_cache) :
          LocalDate(sessions_cache[i].started_at) \notin
              (LocalDate(now) - 6)..LocalDate(now)

\* App::cycle_filter has run
FilterCycled == session_filter' # session_filter

\* C22: the daily totals are computed over the whole cache: cycling the
\* session filter among Today, Week and All leaves the results of
\* daily_focus_data and weekly_bar_data unchanged.
C22_TotalsIgnoreFilter ==
    [][FilterCycled => /\ daily_focus_data' = daily_focus_data
                       /\ weekly_bar_data' = weekly_bar_data]_vars

\* the filter was cycled to Today, which hides a record the chart counts
C22_Witness ==
    /\ session_filter = "Today"
    /\ current_view = "Stats"
    /\ daily_focus_data[1] # ToWide(0)
    /\ Len(filtered_sessions) < Len(sessions_cache)

\* the exact total of the durations of ss[1..n]
RECURSIVE ExactTotal(_, _)
ExactTotal(ss, n) ==
    IF n = 0 THEN ToWide(0)
    ELSE AddWide(ExactTotal(ss, n - 1), ToWide(ss[n].duration_secs))

\* the summary of a record list: counts, exact total, average rounded down
Summary(ss) ==
    LET count == Len(ss)
        completed_count == Cardinality({i \in 1..count : ss[i].completed})
        total_seconds == ExactTotal(ss, count)
    IN  [panicked |-> FALSE,
         total_sessions |-> count,
         completed_sessions |-> completed_count,
         interrupted_sessions |-> count - completed_count,
         total_focus_time_secs |-> total_seconds,
         average_duration_secs |->
             IF count = 0 THEN ToWide(0) ELSE DivWide(total_seconds, count)]

\* C23: SessionStats::from_sessions returns count = number of records,
\* completed_count = number of completed ones, interrupted_count = count -
\* completed_count, total_seconds = the exact sum of duration_secs without
\* wrap-around, and average_seconds = floor(total_seconds / count), or 0 when
\* count = 0 (whichever the build profile).
C23_SummaryExact ==
    \A build \in Builds : stats_summary(build) = Summary(filtered_sessions)

\* Storage::save_session has been called
StoreSaveStep == handed' # handed /\ Len(handed') = Len(handed) + 1

\* C24: after a successful save_session(r), load_sessions returns the list
\* that was loadable before with r appended as its last element: insertion
\* order, earlier records neither dropped nor changed, duplicates kept.
C24_SaveAppends ==
    [][(StoreSaveStep /\ ret' = "Ok") =>
          /\ LoadSessions(disk).ok
          /\ LoadSessions(disk') =
                 [ok |-> TRUE,
                  sessions |-> Append(LoadSessions(disk).sessions,
                                      handed'[Len(handed')])]]_vars

\* two saves of one and the same record after an older, different one: the
\* file holds all three, in that order
C24_Witness ==
    /\ ret = "Ok"
    /\ Len(handed) = 2
    /\ handed[1] = handed[2]
    /\ LoadSessions(disk).ok
    /\ LET ss == LoadSessions(disk).sessions
       IN  /\ Len(ss) = 3
           /\ ss[1] # ss[2]
           /\ ss[2] = handed[1]
           /\ ss[3] = handed[2]

\* the cache has been loaded from the file (App::refresh_sessions)
RefreshStep == current_view' # current_view /\ current_view' # "Timer"

\* C25: loading without a file, or with a blank one, succeeds with the empty
\* sequence; a file that does not parse is a load error and is never taken
\* for an empty history, also when the application refreshes its cache.
C25_MalformedSurfaced ==
    /\ [](/\ disk.kind \in {"absent", "blank"} =>
                LoadSessions(disk) = [ok |-> TRUE, sessions |-> <<>>]
          /\ disk.kind = "malformed" => ~LoadSessions(disk).ok)
    /\ [][(RefreshStep /\ ~LoadSessions(disk).ok) =>
              ~(ret' = "Ok" /\ sessions_cache' = <<>>)]_vars

\* (EnteringTask, Confirm) has started the timer
TaskConfirmedStep == state = "EnteringTask" /\ state' = "Running"

\* C26: from EnteringTask, Confirm moves to Running(Work) with total =
\* remaining = work_duration and interval_start = now exactly when the trimmed
\* task text is non-empty; with an empty or whitespace-only task Confirm
\* changes nothing and the phase stays EnteringTask. Running(Work) is never
\* entered with an empty trimmed task.
C26_ConfirmNeedsTask ==
    /\ [][(EnteringTaskConfirm /\ Trim(task_description) = <<>>)
              => UNCHANGED vars]_vars
    /\ [][(EnteringTaskConfirm /\ Trim(task_description) # <<>>)
              => TaskConfirmedStep]_vars
    /\ [][TaskConfirmedStep =>
              /\ Trim(task_description) # <<>>
              /\ task_description' = task_description
              /\ timer_mode' = "Work"
              /\ total_duration_secs' = work_duration_secs
              /\ remaining_secs' = work_duration_secs
              /\ session_start' = Some(now)
              /\ pomodoro_started_at' = Some(now)]_vars
    /\ []((state = "Running" /\ timer_mode = "Work")
              => Trim(task_description) # <<>>)

\* the work interval has just been started by Confirm
C26_Witness ==
    /\ state = "Running"
    /\ timer_mode = "Work"
    /\ session_start = Some(now)
    /\ now > 0
    /\ remaining_secs = work_duration_secs
    /\ total_duration_secs = work_duration_secs
    /\ work_duration_secs > 0
    /\ Trim(task_description) # <<>>
    /\ ~should_quit

\* what Confirm does in Idle
IdleConfirmEnters ==
    ENABLED (IdleConfirm /\ state' = "EnteringTask" /\ task_description' = <<>>)
IdleConfirmIgnored == ~ENABLED (IdleConfirm /\ ~UNCHANGED vars)

\* C27 (as claimed): from Idle, Confirm always moves the phase to EnteringTask
\* with the task text cleared, with no further guard.
C27_IdleConfirmAlways == (state = "Idle" /\ Polled) => IdleConfirmEnters

\* C27 (amended): from Idle, Confirm moves the phase to EnteringTask with the
\* task text cleared when the Timer view is shown; in the History and Stats
\* views it changes nothing.
C27_IdleConfirmInTimerView ==
    /\ [][IdleConfirm =>
              /\ current_view = "Timer"
              /\ state' = "EnteringTask"
              /\ task_description' = <<>>]_vars
    /\ []((state = "Idle" /\ Polled) =>
              IF current_view = "Timer" THEN IdleConfirmEnters
              ELSE IdleConfirmIgnored)

\* Enter was pressed in Idle with the Timer view shown, after a visit to the
\* other views
C27_Witness ==
    /\ state = "EnteringTask"
    /\ task_description = <<>>
    /\ current_view = "Timer"
    /\ sessions_cache # <<>>

\* the skip key and Confirm after a finished interval
FinishedSkipStep ==
    \E c \in SkipKeys : WorkFinishedSkip(c) \/ BreakFinishedSkip(c)
FinishedConfirmStep == WorkFinishedConfirm \/ BreakFinishedConfirm

\* C28: from WorkFinished the skip key resets to Idle and Confirm moves to
\* EnteringTask, and likewise from BreakFinished; in each case the task text
\* is cleared, timer_mode becomes Work and total = remaining = work_duration,
\* no record is stored and work_sessions_completed is unchanged.
C28_FinishedToNextTask ==
    /\ [][(FinishedSkipStep => state' = "Idle")
          /\ (FinishedConfirmStep => state' = "EnteringTask")
          /\ ((FinishedSkipStep \/ FinishedConfirmStep) =>
                 /\ task_description' = <<>>
                 /\ timer_mode' = "Work"
                 /\ total_duration_secs' = work_duration_secs
                 /\ remaining_secs' = work_duration_secs
                 /\ handed' = handed
                 /\ disk' = disk
                 /\ work_sessions_completed' = work_sessions_completed
                 /\ ret' = "Ok")]_vars
    /\ []((state \in {"WorkFinished", "BreakFinished"} /\ Polled) =>
              /\ ENABLED (FinishedSkipStep /\ state' = "Idle")
              /\ ENABLED (FinishedConfirmStep /\ state' = "EnteringTask"))

\* Confirm after a finished break: the task entry is open, empty, and the
\* timer is set for work again
C28_Witness ==
    /\ state = "EnteringTask"
    /\ task_description = <<>>
    /\ timer_mode = "Work"
    /\ remaining_secs = work_duration_secs
    /\ work_duration_secs > 0
    /\ breaks_started >= 1
    /\ Completions >= 1
    /\ work_sessions_completed >= 1

\* C29: only a work interval can be paused: the pause key moves Running to
\* Paused only when timer_mode is Work, so Paused implies timer_mode = Work
\* in every reachable state; the skip key moves Running to BreakFinished only
\* when timer_mode is a break.
C29_OnlyWorkPauses ==
    /\ []((state = "Paused") => (timer_mode = "Work"))
    /\ [][(state = "Running" /\ state' = "Paused") =>
              /\ timer_mode = "Work"
              /\ \E c \in PauseKeys : RunningPause(c)]_vars
    /\ [][(\E c \in PauseKeys : RunningPause(c)) =>
              (timer_mode = "Work" /\ state' = "Paused")]_vars
    /\ [][(\E c \in SkipKeys : RunningSkip(c)) =>
              (timer_mode # "Work" /\ state' = "BreakFinished")]_vars

\* a work interval paused after a break was taken and skipped
C29_Witness ==
    /\ state = "Paused"
    /\ timer_mode = "Work"
    /\ pause_start = Some(now)
    /\ breaks_started >= 1

\* C30: for the list and stats commands the window flags today, week and all
\* are mutually exclusive (no two can be given together), and when none is
\* given the window is Week.
C30_WindowFlagsExclusive ==
    [][\A flags \in SUBSET WindowFlags :
          (ListCommand(flags) \/ StatsCommand(flags)) =>
              /\ Cardinality(flags) >= 2 => ret' = "Err"
              /\ (flags = {} /\ ret' = "Ok") => session_filter' = "Week"]_vars

\* the work intervals started so far (EnteringTask -> Running(Work)): the
\* budget of Init counts them down
StartedIntervals == MaxIntervals - budget

\* C31: each started work interval produces at most one Session record over
\* its whole life, for every sequence of actions the main loop can deliver,
\* including a quit key handled while Running followed by the Tick the loop
\* sends in the same iteration because the phase is still Running.
C31_OneRecordPerInterval == Len(handed) <= StartedIntervals

\* C32: stopping from Paused persists a record with completed = false whose
\* duration_worked is the active elapsed time shown when the pause began
\* (total - remaining, which stands still while Paused), however long the
\* pause lasted, and moves to Idle with pause_start and interval_start
\* cleared.
C32_PausedStopRecordsShownTime ==
    [][PausedStopStep =>
          /\ handed' = Append(handed, SessionOf(elapsed_secs, FALSE))
          /\ state' = "Idle"
          /\ pause_start' = None
          /\ session_start' = None]_vars

\* C33: every persisted record has duration_worked <= work_duration; a record
\* has completed = true only if duration_worked = work_duration, and (for
\* work_duration > 0) a record with completed = false has duration_worked <
\* work_duration.
C33_RecordDurations ==
    \A i \in 1..Len(handed) :
        /\ handed[i].duration_secs <= work_duration_secs
        /\ handed[i].completed => handed[i].duration_secs = work_duration_secs
        /\ (work_duration_secs > 0 /\ ~handed[i].completed) =>
               handed[i].duration_secs < work_duration_secs

\* an interval of two seconds stopped after one of them was counted
C33_Witness ==
    /\ work_duration_secs > 1
    /\ \E i \in 1..Len(handed) :
          /\ ~handed[i].completed
          /\ 0 < handed[i].duration_secs
          /\ handed[i].duration_secs < work_duration_secs

\* C34: in every reachable state with phase Idle or EnteringTask, timer_mode
\* = Work and remaining_secs = total_duration_secs = work_duration_secs,
\* whichever path led there (reset, Cancel from EnteringTask, Confirm from
\* WorkFinished or BreakFinished).
C34_IdleTimerIsFresh ==
    (state \in {"Idle", "EnteringTask"}) =>
        /\ timer_mode = "Work"
        /\ remaining_secs = work_duration_secs
        /\ total_duration_secs = work_duration_secs

\* Idle again after a work interval was stopped part-way
C34_Witness ==
    /\ state = "Idle"
    /\ work_duration_secs > 0
    /\ handed # <<>>
    /\ handed[Len(handed)].duration_secs > 0
    /\ ~handed[Len(handed)].completed

\* what the keys of EnteringTask leave alone
TypingFrame ==
    /\ handed' = handed
    /\ disk' = disk
    /\ total_duration_secs' = total_duration_secs
    /\ remaining_secs' = remaining_secs
    /\ work_sessions_completed' = work_sessions_completed
    /\ should_quit' = should_quit
    /\ ret' = "Ok"

\* C35: in EnteringTask every character input, the characters that are the
\* quit, stop, skip, break, pause and filter keys of other phases included,
\* is only appended to the task text; Backspace removes the last character
\* (no-op on empty text); Cancel clears the text and returns to Idle; none of
\* these stores a record or changes total, remaining or
\* work_sessions_completed.
C35_TypingOnlyEditsTask ==
    /\ [][(state = "EnteringTask" /\ state' = "EnteringTask") =>
              /\ TypingFrame
              /\ \/ \E c \in Chars : task_description' = Append(task_description, c)
                 \/ /\ task_description # <<>>
                    /\ task_description' =
                           SubSeq(task_description, 1, Len(task_description) - 1)
                 \/ task_description' = task_description]_vars
    /\ [][(state = "EnteringTask" /\ state' = "Idle") =>
              (TypingFrame /\ task_description' = <<>>)]_vars
    /\ [][EnteringTaskBackspace =>
              (state' = "EnteringTask"
               /\ Len(task_description') = Len(task_description) - 1)]_vars
    /\ []((state = "EnteringTask" /\ Polled) =>
              /\ ENABLED (EnteringTaskCancel /\ state' = "Idle")
              /\ Len(task_description) < MaxTaskLen =>
                    \A c \in Chars :
                        ENABLED (/\ EnteringTaskInput(c)
                                 /\ state' = "EnteringTask"
                                 /\ task_description' = Append(task_description, c)))

\* the quit key was typed into the task
C35_Witness ==
    /\ state = "EnteringTask"
    /\ \E i \in 1..Len(task_description) : task_description[i] \in QuitKeys
    /\ ~should_quit

\* a work interval is under way
InWorkInterval == state \in {"Running", "Paused"} /\ timer_mode = "Work"

\* C36: the started_at of a persisted record is the wall-clock time at which
\* its work interval entered Running; pause and resume shift only the
\* monotonic interval_start and never change started_at, and the record
\* stored for an interval never carries the started_at of an earlier interval.
C36_StartedAtIsIntervalStart ==
    /\ [][TaskConfirmedStep =>
              (pomodoro_started_at' = Some(now) /\ session_start' = Some(now))]_vars
    /\ [][(InWorkInterval /\ InWorkInterval') =>
              pomodoro_started_at' = pomodoro_started_at]_vars
    /\ [][(state = "Paused" /\ state' = "Running") =>
              /\ session_start' =
                     Some(session_start[1] + (now - pause_start[1]))
              /\ pomodoro_started_at' = pomodoro_started_at]_vars
    /\ [][handed' # handed =>
              /\ InWorkInterval
              /\ Len(handed') = Len(handed) + 1
              /\ SubSeq(handed', 1, Len(handed)) = handed
              /\ handed'[Len(handed')].started_at = pomodoro_started_at[1]
              /\ \A i \in 1..Len(handed) :
                     handed[i].started_at <= pomodoro_started_at[1]]_vars

\* two intervals recorded, the second begun later and resumed after a pause
C36_Witness ==
    /\ state = "WorkFinished"
    /\ Len(handed) >= 2
    /\ handed[1].started_at < handed[2].started_at
    /\ handed[Len(handed)].started_at = pomodoro_started_at[1]
    /\ session_start[1] > pomodoro_started_at[1]

\* C37: under the main loop (a Tick in every iteration while the phase is
\* Running), with wall-clock time advancing and no further user input, every
\* Running interval eventually leaves Running: a Work interval reaches
\* WorkFinished and a break reaches BreakFinished.
C37_RunningIntervalEnds ==
    /\ (state = "Running" /\ timer_mode = "Work") ~> (state = "WorkFinished")
    /\ (state = "Running" /\ timer_mode # "Work") ~> (state = "BreakFinished")

\* a break of positive length ran to its end
C37_Witness ==
    /\ state = "BreakFinished"
    /\ total_duration_secs > 0
    /\ remaining_secs = 0
    /\ active >= total_duration_secs * TicksPerSec
    /\ work_duration_secs > 0
    /\ work_sessions_completed = 1

\* the session passed to save_session in this step
SavedNow == handed'[Len(handed')]

\* save_session on a file that cannot be loaded: Err, nothing written
RefusedSave ==
    (~LoadSessions(disk).ok) => (ret' = "Err" /\ disk' = disk)

\* C38 as stated: save_session never destroys existing history: when the
\* existing store cannot be read or parsed it returns an error without
\* writing, so the stored content is unchanged; it overwrites the file only
\* with the loaded list plus the new record.
C38_NeverDestroysHistory ==
    [][StoreSaveStep =>
          /\ RefusedSave
          /\ LoadSessions(disk') # LoadSessions(disk) =>
                /\ LoadSessions(disk).ok
                /\ disk' = ListFile(Append(LoadSessions(disk).sessions, SavedNow))
          /\ LoadSessions(disk).ok =>
                /\ LoadSessions(disk').ok
                /\ Len(LoadSessions(disk').sessions) >= Len(LoadSessions(disk).sessions)
                /\ SubSeq(LoadSessions(disk').sessions, 1,
                          Len(LoadSessions(disk).sessions))
                       = LoadSessions(disk).sessions]_vars

\* C38 amended: when the existing store cannot be read or parsed,
\* save_session returns an error without writing and the stored content is
\* unchanged; a save that returns Ok leaves exactly the loaded list plus the
\* new record; a save that changes the file in any other way returns an
\* error, the write having failed part-way on a store that was loadable,
\* leaving it blank or unparsable.
C38_SaveRefusesUnreadableStore ==
    [][StoreSaveStep =>
          /\ RefusedSave
          /\ ret' = "Ok" =>
                /\ LoadSessions(disk).ok
                /\ disk' = ListFile(Append(LoadSessions(disk).sessions, SavedNow))
          /\ (ret' = "Err" /\ disk' # disk) =>
                /\ LoadSessions(disk).ok
                /\ disk' \in {BlankFile, MalformedFile}]_vars

\* the last of several saves returned an error on a store that does not
\* parse, and the History view still shows what was loaded at startup
C38_Witness ==
    /\ ret = "Err"
    /\ disk = MalformedFile
    /\ Len(handed) >= 2
    /\ sessions_cache # <<>>

====
